---- MODULE Spec2Model ----
(***************************************************************************)
(* Widget lifecycle and mounting engine of preact-embed (habitat factory). *)
(* The program state is gathered in one record (State) so that a handler   *)
(* that calls another (renderOne -> existingMeta.unmount, unmountAll ->    *)
(* instance.unmount) is the composition of the operators modelling them.   *)
(***************************************************************************)
EXTENDS Integers, Sequences, FiniteSets, TLC

\* ------------------------------------------------------------------ bounds
MaxInst == 2        \* WidgetInstance objects created in one run
MaxSignals == 3     \* signals created in one run
MaxEffects == 2     \* subscriptions made to the store in one run
MaxCalls == 8       \* callback invocations followed within one emit

\* ------------------------------------------------------------------ state
VARIABLES
    globalOptions,  \* [Factories -> ConfigNames]: each factory's `globalOptions`
    instances,      \* [Factories -> Seq(InstIds)]: each factory's `instances`
    inst,           \* [InstIds -> closure state of the instance | NoInst]
    count,          \* number of WidgetInstance objects created so far
    meta,           \* [Elements -> HabitatMeta | NoMeta]: element[HABITAT_KEY]
    shadow,         \* [Elements -> BOOLEAN]: the element has a shadow root
    dom,            \* [Elements -> [light, shadow: tree]]: what is rendered in each root
    defined,        \* customElements: tag name -> registration
    ce,             \* [CeNames -> state of a PreactHabitatElement | NoCe]
    events,         \* eventBus.events: topic -> callbacks in insertion order
    closures,       \* the unsubscribe closures eventBus.on returned and a caller kept
    signals,        \* globalStore and the signals getSignal created
    store,          \* one createStore store: its state signal and its effects
    hostAttrs,      \* the attributes of host element "e1", in order
    hostBlocks,     \* the contents of the JSON <script> blocks in "e1", in order
    hostNested,     \* the positions of the blocks of "e1" that sit inside a child element
    script,         \* what getCurrentScript() finds in the document
    intersectionObserver,   \* the platform has an IntersectionObserver
    ret,            \* what the last call of a pure function returned
    op,             \* the call just made and whether it raised
    log             \* what that call did, in order

habitatVars == <<globalOptions, instances, inst, count, meta, shadow, dom, defined>>
busVars == <<events, closures>>
signalVars == <<signals, store>>
documentVars == <<hostAttrs, hostBlocks, hostNested, script, intersectionObserver>>
vars == <<habitatVars, ce, busVars, signalVars, documentVars, ret, op, log>>


\* ------------------------------------------------------------ the document
Elements == {"e1", "e2"}
\* the <x-widget> element the platform may create
CeNames == {"c1"}
Factories == {"f1", "f2"}
Keys == {"a", "b"}
Undefined == 0
NoProps == [k \in Keys |-> Undefined]

\* { ...p, ...q }
Spread(p, q) == [k \in Keys |-> IF q[k] # Undefined THEN q[k] ELSE p[k]]

\* ---------------------------------------------------------------- JS values
\* A property value is a number of the model: a positive number below 100 is
\* that JS number, and the other JS values are
JsFalse == 100
JsTrue == 101
JsNull == 102
JsZero == 103
JsNaN == 104

\* every text the document, Number() or JSON.parse deal with
Texts ==
    <<"true", "false", "null", " null", "1", "2", "42", "", " ", "hello", "hi",
      "{}", "[1,2]", "\"hi\"", "\"42\"", "{broken", "{\"a\":3}",
      "{\"a\":4,\"b\":4}", "{\"a\":2,\"b\":2}">>
IndexOf(text) == CHOOSE i \in DOMAIN Texts : Texts[i] = text
\* the JS string with this text
Str(text) == 200 + IndexOf(text)
\* the object or array JSON.parse builds from this text
Obj(text) == 300 + IndexOf(text)

\* Number(value)
Number(value) ==
    CASE value = "1" -> 1
      [] value = "2" -> 2
      [] value = "42" -> 42
      [] value \in {"", " "} -> JsZero
      [] OTHER -> JsNaN
isNaN(n) == n = JsNaN

\* JSON.parse(text): ok is FALSE when it raises; kind tells null, object and
\* array apart; props are the own enumerable keys a spread of the value copies
Threw == [ok |-> FALSE, kind |-> "", value |-> Undefined, props |-> NoProps]
Parsed(kind, value, props) == [ok |-> TRUE, kind |-> kind, value |-> value, props |-> props]
JSONparse(text) ==
    CASE text = "true" -> Parsed("boolean", JsTrue, NoProps)
      [] text = "false" -> Parsed("boolean", JsFalse, NoProps)
      [] text \in {"null", " null"} -> Parsed("null", JsNull, NoProps)
      [] text \in {"1", "2", "42"} -> Parsed("number", Number(text), NoProps)
      [] text = "\"hi\"" -> Parsed("string", Str("hi"), NoProps)
      [] text = "\"42\"" -> Parsed("string", Str("42"), NoProps)
      [] text = "{}" -> Parsed("object", Obj(text), NoProps)
      \* the keys of an array are its indices, none of them in Keys
      [] text = "[1,2]" -> Parsed("array", Obj(text), NoProps)
      [] text = "{\"a\":3}" -> Parsed("object", Obj(text), [a |-> 3, b |-> Undefined])
      [] text = "{\"a\":4,\"b\":4}" -> Parsed("object", Obj(text), [a |-> 4, b |-> 4])
      [] text = "{\"a\":2,\"b\":2}" -> Parsed("object", Obj(text), [a |-> 2, b |-> 2])
      [] OTHER -> Threw
\* typeof parsed
typeof(parsed) ==
    IF parsed.kind \in {"object", "array", "null"} THEN "object" ELSE parsed.kind

\* String.prototype.trim
trim(text) ==
    CASE text = " null" -> "null"
      [] text = " " -> ""
      [] OTHER -> text

\* try { return JSON.parse(json) } catch { return fallback }
safeJsonParse(json, fallback) ==
    IF JSONparse(json).ok THEN JSONparse(json).props ELSE fallback

\* ------------------------------------------------------- prop extraction
Attr(name, value) == [name |-> name, value |-> value]
\* element.attributes
attributes(e) ==
    CASE e = "e1" -> hostAttrs
      [] e \in CeNames -> ce[e].attrs
      [] OTHER -> <<>>
\* the contents of element.querySelectorAll('script[type=...]')
scripts(e) ==
    CASE e = "e1" -> hostBlocks
      [] OTHER -> <<>>
\* the markup of "e1" in the document the lifecycle runs in
E1Attrs == <<Attr("data-prop-a", "1")>>
E1Blocks == <<"{\"a\":2,\"b\":2}">>

\* attr.name.startsWith('data-prop-')
startsWithPrefix(name) == name \in {"data-prop-a", "data-prop-b"}
\* camelCase(attr.name.slice(10)), for the one-word names of this document
propName(name) == IF name = "data-prop-a" THEN "a" ELSE "b"

\* the coercion of one attribute value
parseValue(value) ==
    IF value = "true" THEN JsTrue
    ELSE IF value = "false" THEN JsFalse
    ELSE IF value = "null" THEN JsNull
    ELSE IF ~isNaN(Number(value)) /\ value # "" THEN Number(value)
    ELSE IF JSONparse(value).ok /\ typeof(JSONparse(value)) = "object"
         THEN JSONparse(value).value
    ELSE Str(value)

RECURSIVE propsOfAttrs(_, _)
propsOfAttrs(attrs, props) ==
    IF attrs = <<>> THEN props
    ELSE LET attr == Head(attrs)
         IN  propsOfAttrs(Tail(attrs),
                 IF startsWithPrefix(attr.name)
                 THEN [props EXCEPT ![propName(attr.name)] = parseValue(attr.value)]
                 ELSE props)

\* props carried by the data-prop-* attributes of a host element
getPropsFromAttributes(e) == propsOfAttrs(attributes(e), NoProps)

\* a block loop that gives up at the first block that does not parse
RECURSIVE propsOfScripts_abort(_, _)
propsOfScripts_abort(blocks, props) ==
    IF blocks = <<>> THEN props
    ELSE LET content == trim(Head(blocks))
         IN  IF content # "" /\ ~JSONparse(content).ok THEN NoProps
             ELSE propsOfScripts_abort(Tail(blocks),
                      IF content # "" THEN Spread(props, safeJsonParse(content, NoProps))
                      ELSE props)

\* scripts.forEach((script) => { ... props = { ...props, ...parsed } })
RECURSIVE propsOfScripts(_, _)
propsOfScripts(blocks, props) ==
    IF blocks = <<>> THEN props
    ELSE LET content == trim(Head(blocks))
         IN  propsOfScripts(Tail(blocks),
                 IF content # ""
                 THEN Spread(props, safeJsonParse(content, NoProps))
                 ELSE props)

\* props carried by the JSON <script> blocks of a host element
getPropsFromScripts(e) == propsOfScripts(scripts(e), NoProps)

collectProps(e, defaultProps) ==
    Spread(Spread(defaultProps, getPropsFromScripts(e)), getPropsFromAttributes(e))

\* a merge where the override props win over what the element carries
initialProps_overrideLast(defaultProps, e, overrideProps) ==
    Spread(collectProps(e, defaultProps), overrideProps)

\* let props = collectProps(element, { ...defaultProps, ...overrideProps })
initialProps(defaultProps, e, overrideProps) ==
    collectProps(e, Spread(defaultProps, overrideProps))

querySelectorAll(selector) ==
    CASE selector = ".w" -> <<"e1", "e2">>
      [] selector = "#e2" -> <<"e2">>
      [] OTHER -> <<>>

\* ------------------------------------------------------------- HabitatOptions
BaseOptions ==
    [selector |-> "", inline |-> FALSE, clientSpecified |-> FALSE,
     defaultProps |-> NoProps, clean |-> FALSE, shadowRoot |-> "undefined",
     lazy |-> FALSE, hydrate |-> FALSE, tagName |-> "",
     onBeforeMount |-> "none", onMounted |-> FALSE, onUnmount |-> FALSE]

\* shadowRoot is "undefined", "false" or "true" (true or a ShadowRootInit)
ConfigNames == {"empty", "hooks", "replace", "shadow", "lazy", "tag"}
\* the configurations that clean the host element before the mount
CleanConfigs == {"clean"}
\* the configurations that register a custom element
TagConfigs == {"tag", "tagLight"}

HabitatOptions(c) ==
    CASE c = "empty" -> BaseOptions
      [] c = "hooks" -> [BaseOptions EXCEPT !.selector = ".w",
                                            !.defaultProps = [a |-> 3, b |-> 3],
                                            !.onBeforeMount = "void",
                                            !.onMounted = TRUE, !.onUnmount = TRUE]
      [] c = "replace" -> [BaseOptions EXCEPT !.selector = "#e2",
                                              !.onBeforeMount = "replace",
                                              !.onMounted = TRUE]
      [] c = "shadow" -> [BaseOptions EXCEPT !.selector = "#e2", !.shadowRoot = "true",
                                             !.hydrate = TRUE, !.onUnmount = TRUE]
      [] c = "lazy" -> [BaseOptions EXCEPT !.selector = "#e2", !.lazy = TRUE,
                                           !.onBeforeMount = "void",
                                           !.onMounted = TRUE, !.onUnmount = TRUE]
      [] c = "clean" -> [BaseOptions EXCEPT !.selector = ".w", !.clean = TRUE]
      [] c = "tag" -> [BaseOptions EXCEPT !.selector = ".w", !.tagName = "x-widget"]
      [] c = "tagLight" -> [BaseOptions EXCEPT !.tagName = "x-widget",
                                               !.shadowRoot = "false",
                                               !.defaultProps = [a |-> 3, b |-> 3]]

\* the replacement props an onBeforeMount hook of kind "replace" returns
HookReplacement == [a |-> 3, b |-> Undefined]

InstIds == 1..MaxInst
\* props: the `props` field of the WidgetInstance object; cur: the closure's
\* `props` variable; vnode: the props of the vnode built at mount; gone: the
\* unmount closure has run, cfg: the configuration the factory had when the
\* instance was mounted (observations, the code keeps neither)
NoInst == [el |-> "", fac |-> "", props |-> NoProps, cur |-> NoProps,
           vnode |-> NoProps, root |-> "", how |-> "", obs |-> "none",
           gone |-> FALSE, cfg |-> ""]
NoMeta == [root |-> "", vnode |-> NoProps, unmount |-> 0]
EmptyTree == [kind |-> "empty", props |-> NoProps, how |-> ""]
Tree(p, how) == [kind |-> "widget", props |-> p, how |-> how]
NoDef == [fac |-> "", cfg |-> ""]
Tags == {"x-widget"}

State ==
    [globalOptions |-> globalOptions, instances |-> instances, inst |-> inst,
     count |-> count, meta |-> meta, shadow |-> shadow, dom |-> dom,
     defined |-> defined, hostBlocks |-> hostBlocks, hostNested |-> hostNested,
     raised |-> FALSE, log |-> <<>>]

\* an event of the call: what was done, on which element, for which instance,
\* under which configuration, with which props
EvP(ev, e, i, c, p) == [ev |-> ev, el |-> e, id |-> i, cfg |-> c, props |-> p]
Ev(ev, e, i, c) == EvP(ev, e, i, c, NoProps)
Emit(s, ev) == [s EXCEPT !.log = Append(@, ev)]

\* ------------------------------------------------------ widget storage
setHabitatMeta(s, e, m) == [s EXCEPT !.meta[e] = m]
getHabitatMeta(s, e) == s.meta[e]
clearHabitatMeta(s, e) == [s EXCEPT !.meta[e] = NoMeta]

\* preact render(vnode, root) / hydrate(vnode, root) / render(null, root)
render(s, e, root, tree) == [s EXCEPT !.dom[e][root] = tree]

\* instances.findIndex((i) => i.element === element); 0 stands for -1
RECURSIVE findIndexFrom(_, _, _, _)
findIndexFrom(s, seq, e, k) ==
    IF k > Len(seq) THEN 0
    ELSE IF s.inst[seq[k]].el = e THEN k
    ELSE findIndexFrom(s, seq, e, k + 1)
findIndex(s, seq, e) == findIndexFrom(s, seq, e, 1)

\* a splice that removes nothing
splice_keep(seq, idx) == seq

\* instances.splice(idx, 1)
splice(seq, idx) == SubSeq(seq, 1, idx - 1) \o SubSeq(seq, idx + 1, Len(seq))

\* ------------------------------------------------ closures of one instance
\* const unmount = () => { ... }
unmount(s, i) ==
    LET e == s.inst[i].el
        f == s.inst[i].fac
        c == s.globalOptions[f]
        s1 == Emit(render(s, e, s.inst[i].root, EmptyTree), Ev("renderNull", e, i, ""))
        s2 == [clearHabitatMeta(s1, e) EXCEPT !.inst[i].gone = TRUE]
        s3 == IF HabitatOptions(c).onUnmount
              THEN Emit(s2, Ev("onUnmount", e, i, c)) ELSE s2
        idx == findIndex(s3, s3.instances[f], e)
    IN  IF idx > 0 THEN [s3 EXCEPT !.instances[f] = splice(@, idx)] ELSE s3

\* an update that extracts the props from the host element again
update_reextract(s, i, newProps) ==
    LET e == s.inst[i].el
        p == Spread(collectProps(e, s.inst[i].cur), newProps)
        s1 == Emit([s EXCEPT !.inst[i].cur = p], Ev("collectProps", e, i, ""))
    IN  Emit(render(s1, e, s.inst[i].root, Tree(p, "render")), Ev("render", e, i, ""))

\* const update = (newProps) => { ... }
update(s, i, newProps) ==
    LET e == s.inst[i].el
        p == Spread(s.inst[i].cur, newProps)
        s1 == [s EXCEPT !.inst[i].cur = p]
    IN  Emit(render(s1, e, s.inst[i].root, Tree(p, "render")), Ev("render", e, i, ""))

\* const doRender = () => { renderFn(vnode, root) }
doRender(s, e, root, vnode, how, i) ==
    Emit(render(s, e, root, Tree(vnode, how)), EvP("activate", e, i, "", vnode))

\* the IntersectionObserver callback of instance i, given the entries'
\* isIntersecting flags
RECURSIVE observerCallback(_, _, _)
observerCallback(s, i, entries) ==
    IF entries = <<>> THEN s
    ELSE LET I == s.inst[i]
             s1 == IF Head(entries)
                   THEN [doRender(s, I.el, I.root, I.vnode, I.how, i)
                            EXCEPT !.inst[i].obs = "disconnected"]
                   ELSE s
         IN  observerCallback(s1, i, Tail(entries))

\* a deferred activation that falls back to rendering at once where the
\* platform cannot observe visibility
observe_fallback(s, e, root, vnode, how, i) ==
    IF intersectionObserver THEN Emit(s, Ev("observe", e, i, ""))
    ELSE doRender(s, e, root, vnode, how, i)

\* const observer = new IntersectionObserver(...); observer.observe(element):
\* the constructor is a global of the platform, and naming it where the
\* platform has none raises a ReferenceError
observe(s, e, root, vnode, how, i) ==
    IF intersectionObserver THEN Emit(s, Ev("observe", e, i, ""))
    ELSE [s EXCEPT !.raised = TRUE]

\* a before-mount step that merges the hook's return value into the props
beforeMount_merge(o, props) ==
    IF o.onBeforeMount = "replace" THEN Spread(props, HookReplacement) ELSE props

\* const modified = globalOptions.onBeforeMount(element, props);
\* if (modified) props = modified
beforeMount(o, props) ==
    IF o.onBeforeMount = "replace" THEN HookReplacement ELSE props

\* the children of element left by the clean step: every child is removed
\* but the JSON <script> elements that are children of the element itself,
\* so a block inside another child goes with that child, and so does what
\* was rendered into the element
clean(s, e) ==
    LET s1 == [s EXCEPT !.dom[e].light = EmptyTree]
        kept == {k \in DOMAIN s.hostBlocks : k \notin s.hostNested}
        nth(n) == CHOOSE k \in kept : Cardinality({j \in kept : j < k}) = n - 1
    IN  IF e = "e1"
        THEN [s1 EXCEPT !.hostBlocks = [n \in 1 .. Cardinality(kept) |->
                                            s.hostBlocks[nth(n)]],
                        !.hostNested = {}]
        ELSE s1

\* ------------------------------------------------------------- renderOne
renderOne(s, f, e, overrideProps) ==
    LET o == HabitatOptions(s.globalOptions[f])
        c == s.globalOptions[f]
        i == s.count + 1
        existingMeta == getHabitatMeta(s, e)
        s1 == IF existingMeta # NoMeta
              THEN unmount(Emit(s, Ev("warn", e, existingMeta.unmount, "")),
                           existingMeta.unmount)
              ELSE s
        collected == initialProps(o.defaultProps, e, overrideProps)
        s2 == Emit(s1, Ev("collectProps", e, i, ""))
        s3 == IF o.onBeforeMount # "none"
              THEN Emit(s2, EvP("onBeforeMount", e, i, c, collected)) ELSE s2
        props == beforeMount(o, collected)
        s3c == IF o.clean THEN clean(s3, e) ELSE s3
        \* element.attachShadow raises when the element already hosts a shadow root
        raises == o.shadowRoot = "true" /\ s3c.shadow[e]
        root == IF o.shadowRoot = "true" THEN "shadow" ELSE "light"
        s4 == IF o.shadowRoot = "true"
              THEN Emit([s3c EXCEPT !.shadow[e] = TRUE], Ev("attachShadow", e, i, ""))
              ELSE s3c
        how == IF o.hydrate THEN "hydrate" ELSE "render"
        s5 == IF o.lazy
              THEN observe(s4, e, root, props, how, i)
              ELSE doRender(s4, e, root, props, how, i)
        s6 == Emit(setHabitatMeta(s5, e, [root |-> root, vnode |-> props, unmount |-> i]),
                   Ev("setHabitatMeta", e, i, ""))
        s7 == Emit([s6 EXCEPT !.inst[i] = [el |-> e, fac |-> f, props |-> props,
                                           cur |-> props, vnode |-> props,
                                           root |-> root, how |-> how,
                                           obs |-> IF o.lazy THEN "observing" ELSE "none",
                                           gone |-> FALSE, cfg |-> c],
                              !.count = i,
                              !.instances[f] = Append(@, i)],
                   Ev("push", e, i, ""))
        s8 == IF o.onMounted THEN Emit(s7, EvP("onMounted", e, i, c, props)) ELSE s7
    IN  IF raises THEN [s3c EXCEPT !.raised = TRUE]
        ELSE IF s5.raised THEN s5
        ELSE s8

\* ------------------------------------------------------ host resolution
\* a script element: its parentElement ("" when it has none) and its
\* data-mount-in attribute ("" when it has none)
Script(parent, mountIn) == [exists |-> TRUE, parent |-> parent, mountIn |-> mountIn]
NoScript == [exists |-> FALSE, parent |-> "", mountIn |-> ""]
\* a document without script elements
NoScripts == [current |-> NoScript, last |-> NoScript]

\* document.currentScript, else the last script element of the document
getCurrentScript ==
    IF script.current.exists THEN script.current ELSE script.last

\* a resolution that prefers the selector
findHostElements_selectorFirst(o) ==
    IF o.selector # "" THEN querySelectorAll(o.selector)
    ELSE IF o.inline
    THEN IF getCurrentScript.exists /\ getCurrentScript.parent # ""
         THEN <<getCurrentScript.parent>> ELSE <<>>
    ELSE <<>>

findHostElements(o) ==
    IF o.inline
    THEN IF getCurrentScript.exists /\ getCurrentScript.parent # ""
         THEN <<getCurrentScript.parent>> ELSE <<>>
    ELSE IF o.clientSpecified
    THEN IF getCurrentScript.exists /\ getCurrentScript.mountIn # ""
         THEN querySelectorAll(getCurrentScript.mountIn) ELSE <<>>
    ELSE IF o.selector # "" THEN querySelectorAll(o.selector)
    ELSE <<>>

\* ------------------------------------------------------- custom elements
\* a registration that replaces the one in place
registerCustomElement_redefine(s, tagName, f, c) ==
    [s EXCEPT !.defined[tagName] = [fac |-> f, cfg |-> c]]

registerCustomElement(s, tagName, f, c) ==
    IF s.defined[tagName] # NoDef
    THEN Emit(s, Ev("warn", "", 0, c))
    ELSE [s EXCEPT !.defined[tagName] = [fac |-> f, cfg |-> c]]

\* the state of one PreactHabitatElement: cfg names the options its class
\* closed over, root is "shadow" when _root is set, dom is what is rendered in
\* the element and in its shadow root; attached is the platform's view
NoCe == [created |-> FALSE, cfg |-> "", root |-> "", attached |-> FALSE,
         mounted |-> FALSE, props |-> NoProps, attrs |-> <<>>,
         dom |-> [light |-> EmptyTree, shadow |-> EmptyTree]]

\* constructor()
constructor(c, attrs) ==
    [NoCe EXCEPT !.created = TRUE, !.cfg = c, !.attrs = attrs,
                 !.root = IF HabitatOptions(c).shadowRoot # "false"
                          THEN "shadow" ELSE "light"]

\* private _render()
_render(x) == [x EXCEPT !.dom[x.root] = Tree(x.props, "render")]

connectedCallback(x, k) ==
    [_render([x EXCEPT !.props = collectProps(k, HabitatOptions(x.cfg).defaultProps)])
        EXCEPT !.mounted = TRUE]

disconnectedCallback(x, k) ==
    IF x.mounted
    THEN [x EXCEPT !.dom[x.root] = EmptyTree, !.mounted = FALSE]
    ELSE x

\* an attribute callback that renders whether mounted or not
attributeChangedCallback_unguarded(x, k) ==
    _render([x EXCEPT !.props = collectProps(k, HabitatOptions(x.cfg).defaultProps)])

attributeChangedCallback(x, k) ==
    IF x.mounted
    THEN _render([x EXCEPT !.props = collectProps(k, HabitatOptions(x.cfg).defaultProps)])
    ELSE x

setProps(x, newProps) ==
    LET x1 == [x EXCEPT !.props = Spread(@, newProps)]
    IN  IF x1.mounted THEN _render(x1) ELSE x1

\* ------------------------------------------------- renderAll, unmountAll
\* elements.forEach((element) => renderOne(element)); an exception ends the loop
RECURSIVE renderEach(_, _, _)
renderEach(s, f, elements) ==
    IF elements = <<>> \/ s.raised THEN s
    ELSE renderEach(renderOne(s, f, Head(elements), NoProps), f, Tail(elements))

\* a render that registers the element and mounts the selector's hosts too
renderAll_noBypass(s, f, c) ==
    LET s1 == [s EXCEPT !.globalOptions[f] = c]
        o == HabitatOptions(c)
        s2 == IF o.tagName # "" THEN registerCustomElement(s1, o.tagName, f, c) ELSE s1
    IN  renderEach(s2, f, findHostElements(o))

renderAll(s, f, c) ==
    LET s1 == [s EXCEPT !.globalOptions[f] = c]
        o == HabitatOptions(c)
    IN  IF o.tagName # ""
        THEN registerCustomElement(s1, o.tagName, f, c)
        ELSE renderEach(s1, f, findHostElements(o))

\* [...instances].forEach((instance) => instance.unmount())
RECURSIVE unmountEach(_, _)
unmountEach(s, snapshot) ==
    IF snapshot = <<>> THEN s
    ELSE unmountEach(unmount(s, Head(snapshot)), Tail(snapshot))

\* instances.forEach((instance) => instance.unmount()): the live array, which
\* shrinks under the loop's index
RECURSIVE unmountLive(_, _, _)
unmountLive(s, f, k) ==
    IF k > Len(s.instances[f]) THEN s
    ELSE unmountLive(unmount(s, s.instances[f][k]), f, k + 1)
unmountAll_live(s, f) == unmountLive(s, f, 1)

unmountAll(s, f) == unmountEach(s, s.instances[f])

\* --------------------------------------------------------------- event bus
Topics == {"x", "y"}
\* The callbacks, named by what they do when invoked: "plain" and "late"
\* return, "thrower" raises, "adder" calls on("x", late), "remover" calls
\* off("x", plain); "resub" calls off("x", resub) and then on("x", resub)
Callbacks == {"plain", "late", "thrower", "adder", "remover"}
\* new Map()
NoEvents == [t \in {} |-> <<>>]
\* the slot of a callback deleted from a Set that is being iterated
Deleted == ""
Bus == [events |-> events, raised |-> FALSE, log |-> <<>>]
BusEv(ev, cb, t, args) == [ev |-> ev, cb |-> cb, topic |-> t, args |-> args]

\* Set.prototype.add: a callback already in the set keeps its place
add(set, cb) == IF cb \in {set[k] : k \in DOMAIN set} THEN set ELSE Append(set, cb)
\* Set.prototype.delete: the slot is emptied, so that an iteration under way
\* keeps its position
delete(set, cb) == [k \in DOMAIN set |-> IF set[k] = cb THEN Deleted ELSE set[k]]
\* the Set once no iteration is under way
Compact(set) == SelectSeq(set, LAMBDA cb : cb # Deleted)

on(b, t, cb) ==
    LET ev == IF t \in DOMAIN b.events THEN b.events
              ELSE [u \in DOMAIN b.events \cup {t} |->
                       IF u = t THEN <<>> ELSE b.events[u]]
    IN  [b EXCEPT !.events = [ev EXCEPT ![t] = add(@, cb)]]

off(b, t, cb) ==
    IF t \in DOMAIN b.events
    THEN [b EXCEPT !.events[t] = delete(@, cb)]
    ELSE b

\* callback(...args): what the callback does when it does not raise
callback(b, cb, t, args) ==
    LET b1 == [b EXCEPT !.log = Append(@, BusEv("call", cb, t, args))]
    IN  CASE cb = "adder" -> on(b1, "x", "late")
          [] cb = "remover" -> off(b1, "x", "plain")
          [] cb = "resub" -> on(off(b1, "x", "resub"), "x", "resub")
          [] OTHER -> b1

\* a call of the callback that lets its exception through
tryCallback_rethrow(b, cb, t, args) ==
    IF cb = "thrower"
    THEN [b EXCEPT !.log = Append(@, BusEv("call", cb, t, args)), !.raised = TRUE]
    ELSE callback(b, cb, t, args)

\* try { callback(...args) } catch (error) { console.error(...) }
tryCallback(b, cb, t, args) ==
    IF cb = "thrower"
    THEN [b EXCEPT !.log = @ \o <<BusEv("call", cb, t, args),
                                  BusEv("error", cb, t, args)>>]
    ELSE callback(b, cb, t, args)

\* Set.prototype.forEach from slot k on: it walks the live Set, so it skips
\* the slots emptied before their turn and reaches the callbacks added
\* meanwhile; an exception ends it. The walk is followed for MaxCalls
\* invocations; a walk with a callback still to invoke by then is left
\* there, marked "unfinished"
RECURSIVE forEach(_, _, _, _)
forEach(b, t, k, args) ==
    IF b.raised \/ k > Len(b.events[t]) THEN b
    ELSE IF b.events[t][k] = Deleted THEN forEach(b, t, k + 1, args)
    ELSE IF Cardinality({j \in DOMAIN b.log : b.log[j].ev = "call"}) >= MaxCalls
    THEN [b EXCEPT !.log = Append(@, BusEv("unfinished", b.events[t][k], t, args))]
    ELSE forEach(tryCallback(b, b.events[t][k], t, args), t, k + 1, args)

emit(b, t, args) ==
    LET b1 == IF t \in DOMAIN b.events THEN forEach(b, t, 1, args) ELSE b
    IN  [b1 EXCEPT !.events = [u \in DOMAIN b1.events |-> Compact(b1.events[u])]]

clear(b) == [b EXCEPT !.events = NoEvents]

\* what a call returned, no call made yet
NoRet == [props |-> NoProps, elements |-> <<>>, value |-> 0, flag |-> FALSE, keys |-> <<>>]

\* ------------------------------------------------------------ signal store
SignalKeys == {"k1", "k2"}
SignalValues == {1, 2}
SignalIds == 1 .. MaxSignals
\* new Map(), no signal created yet; requested holds the keys asked for by
\* getSignal since they were last deleted or cleared (an observation)
NoSignals ==
    [globalStore |-> <<>>, value |-> [i \in SignalIds |-> Undefined], created |-> 0,
     requested |-> {}]
Signals ==
    [globalStore |-> signals.globalStore, value |-> signals.value,
     created |-> signals.created, ret |-> NoRet]
\* Map.prototype.has, get, delete, keys on a Map kept as its entries in
\* insertion order
has(map, key) == \E k \in DOMAIN map : map[k].key = key
get(map, key) == map[CHOOSE k \in DOMAIN map : map[k].key = key].signal
remove(map, key) == SelectSeq(map, LAMBDA entry : entry.key # key)
keys(map) == [k \in DOMAIN map |-> map[k].key]

\* signal(initialValue): a new reactive value
signal(g, initialValue) ==
    [g EXCEPT !.created = @ + 1, !.value[g.created + 1] = initialValue]

\* a getSignal that stores a new signal on every call
getSignal_renew(g, key, initialValue) ==
    LET g1 == signal(g, initialValue)
    IN  [g1 EXCEPT !.globalStore = Append(remove(@, key),
                                          [key |-> key, signal |-> g1.created]),
                   !.ret.value = g1.created]

getSignal(g, key, initialValue) ==
    LET g1 == IF ~has(g.globalStore, key)
              THEN LET g2 == signal(g, initialValue)
                   IN  [g2 EXCEPT !.globalStore =
                                      Append(@, [key |-> key, signal |-> g2.created])]
              ELSE g
    IN  [g1 EXCEPT !.ret.value = get(g1.globalStore, key)]

hasSignal(g, key) == [g EXCEPT !.ret.flag = has(g.globalStore, key)]

\* a deleteSignal that reports success whatever it found
deleteSignal_true(g, key) ==
    [g EXCEPT !.globalStore = remove(@, key), !.ret.flag = TRUE]

deleteSignal(g, key) ==
    [g EXCEPT !.globalStore = remove(@, key), !.ret.flag = has(g.globalStore, key)]

clearSignals(g) == [g EXCEPT !.globalStore = <<>>]

getSignalKeys(g) == [g EXCEPT !.ret.keys = keys(g.globalStore)]

\* sig.value = v, through a reference getSignal returned
setValue(g, sig, v) == [g EXCEPT !.value[sig] = v]

\* ------------------------------------------------------------- createStore
EffectIds == 1 .. MaxEffects
StoreCallbacks == {"first", "second"}
\* The actions given to createStore, named by what they return: "setA" the
\* partial { a: arg }, "setBoth" the partial { a: arg, b: arg }, "nothing"
\* undefined
ActionNames == {"setA", "setBoth", "nothing"}
InitialState == [a |-> 1, b |-> 1]
NoEffect == [cb |-> "", active |-> FALSE]
StoreEv(id, cb, state) == [ev |-> "callback", effect |-> id, cb |-> cb, state |-> state]

\* actions[key](state.peek(), ...args)
actions(key, state, arg) ==
    CASE key = "setA" -> [defined |-> TRUE, partial |-> [a |-> arg, b |-> Undefined]]
      [] key = "setBoth" -> [defined |-> TRUE, partial |-> [a |-> arg, b |-> arg]]
      [] OTHER -> [defined |-> FALSE, partial |-> NoProps]

\* the effects that depend on the state signal run, each once, in the order
\* of their creation
RECURSIVE runEffects(_, _)
runEffects(st, id) ==
    IF id > st.created THEN st
    ELSE runEffects(IF st.effects[id].active
                    THEN [st EXCEPT !.log = Append(@, StoreEv(id, st.effects[id].cb,
                                                              st.state))]
                    ELSE st,
                    id + 1)

\* state.value = v
setState(st, v) == runEffects([st EXCEPT !.state = v], 1)

\* a bound action that assigns the fields of the partial one after the other
boundAction_fieldwise(st, key, arg) ==
    LET result == actions(key, st.state, arg)
        st1 == IF result.partial.a # Undefined
               THEN setState(st, [st.state EXCEPT !.a = result.partial.a])
               ELSE st
    IN  IF ~result.defined THEN st
        ELSE IF result.partial.b # Undefined
        THEN setState(st1, [st1.state EXCEPT !.b = result.partial.b])
        ELSE st1

\* boundActions[key](...args)
boundAction(st, key, arg) ==
    LET result == actions(key, st.state, arg)
    IN  IF result.defined
        THEN setState(st, Spread(st.state, result.partial))
        ELSE st

\* effect(() => { callback(state.value) }): the effect runs once when it is
\* created and then whenever the state signal changes
effect(st, cb) ==
    LET id == st.created + 1
    IN  [st EXCEPT !.created = id,
                   !.effects[id] = [cb |-> cb, active |-> TRUE],
                   !.log = Append(@, StoreEv(id, cb, st.state))]

subscribe(st, cb) == effect(st, cb)

\* the function subscribe returned: the effect's dispose
dispose(st, id) == [st EXCEPT !.effects[id].active = FALSE]

\* createStore(initialState, actions)
createStore(initialState) ==
    [state |-> initialState, effects |-> [id \in EffectIds |-> NoEffect], created |-> 0]
Store == [state |-> store.state, effects |-> store.effects, created |-> store.created,
          log |-> <<>>]

\* ------------------------------------------------------------- lite module
\* pv: the coercion of one attribute value
pv(v) ==
    IF v = "true" THEN JsTrue
    ELSE IF v = "false" THEN JsFalse
    ELSE IF v = "null" THEN JsNull
    ELSE IF ~isNaN(Number(v)) /\ v # "" THEN Number(v)
    ELSE IF JSONparse(v).ok THEN JSONparse(v).value
    ELSE Str(v)

\* for (...) if (a.name.startsWith('data-prop-')) p[cc(a.name.slice(10))] = pv(a.value);
\* cc is the replace camelCase is
RECURSIVE gpAttrs(_, _)
gpAttrs(attrs, p) ==
    IF attrs = <<>> THEN p
    ELSE LET a == Head(attrs)
         IN  gpAttrs(Tail(attrs),
                 IF startsWithPrefix(a.name)
                 THEN [p EXCEPT ![propName(a.name)] = pv(a.value)]
                 ELSE p)

\* gp(el, d), el given by its attributes and by the JSON <script> blocks
\* under it: el.querySelector finds the first block
gp(attrs, blocks, d) ==
    LET p == gpAttrs(attrs, Spread(NoProps, d))
    IN  IF blocks # <<>> /\ JSONparse(Head(blocks)).ok
        THEN Spread(p, JSONparse(Head(blocks)).props)
        ELSE p

\* el.innerHTML = ''
clearInnerHTML(s, e) ==
    LET s1 == [s EXCEPT !.dom[e].light = EmptyTree]
    IN  IF e = "e1" THEN [s1 EXCEPT !.hostBlocks = <<>>, !.hostNested = {}] ELSE s1

\* els.forEach((el) => { ... }) of the lite render
RECURSIVE liteEach(_, _, _, _)
liteEach(s, els, defaultProps, cleanFirst) ==
    IF els = <<>> THEN s
    ELSE LET el == Head(els)
             s1 == IF cleanFirst THEN clearInnerHTML(s, el) ELSE s
             props == gp(attributes(el), IF el = "e1" THEN s1.hostBlocks ELSE <<>>,
                         defaultProps)
             s2 == Emit(render(s1, el, "light", Tree(props, "render")),
                        EvP("liteRender", el, 0, "", props))
         IN  liteEach(s2, Tail(els), defaultProps, cleanFirst)

\* habitat(W).render({ selector, defaultProps, clean }) of the lite module
liteRender(s, selector, defaultProps, cleanFirst) ==
    liteEach(s, querySelectorAll(selector), defaultProps, cleanFirst)

\* ---------------------------------------------------------------- actions
Commit(s, call) ==
    /\ globalOptions' = s.globalOptions
    /\ instances' = s.instances
    /\ inst' = s.inst
    /\ count' = s.count
    /\ meta' = s.meta
    /\ shadow' = s.shadow
    /\ dom' = s.dom
    /\ defined' = s.defined
    /\ hostBlocks' = s.hostBlocks
    /\ hostNested' = s.hostNested
    /\ log' = s.log
    /\ op' = [call EXCEPT !.raised = s.raised]
    /\ UNCHANGED <<ce, busVars, signalVars, hostAttrs, script, intersectionObserver, ret>>


Call(name, f, e, i, arg) ==
    [name |-> name, fac |-> f, el |-> e, id |-> i, arg |-> arg, raised |-> FALSE]

\* nothing mounted, registered, created, subscribed or called yet
InitProgram ==
    /\ globalOptions = [f \in Factories |-> "empty"]
    /\ instances = [f \in Factories |-> <<>>]
    /\ inst = [i \in InstIds |-> NoInst]
    /\ count = 0
    /\ meta = [e \in Elements |-> NoMeta]
    /\ shadow = [e \in Elements |-> FALSE]
    /\ dom = [e \in Elements |-> [light |-> EmptyTree, shadow |-> EmptyTree]]
    /\ defined = [t \in Tags |-> NoDef]
    /\ ce = [k \in CeNames |-> NoCe]
    /\ op = Call("init", "", "", 0, NoProps)
    /\ log = <<>>
    /\ events = NoEvents
    /\ closures = {}
    /\ signals = NoSignals
    /\ store = createStore(InitialState)
    /\ ret = NoRet

Init ==
    /\ InitProgram
    /\ hostAttrs = E1Attrs
    /\ hostBlocks = E1Blocks
    /\ hostNested = {}
    /\ script = NoScripts
    /\ intersectionObserver = TRUE

\* ---- the inputs of the prop extraction
MaxBlocks == 3      \* JSON <script> blocks in the host element
RawValues ==
    {"true", "false", "null", " null", "1", "42", "", " ", "hello",
     "{}", "[1,2]", "\"hi\"", "\"42\""}
AttrLists ==
    {<<>>} \cup {<<Attr("data-prop-a", v)>> : v \in RawValues}
      \cup {<<Attr("id", "1"), Attr("data-prop-b", "true")>>,
            <<Attr("data-prop-a", "1"), Attr("data-prop-b", "hello")>>}
BlockTexts == {" ", "{broken", "[1,2]", "{\"a\":3}", "{\"a\":4,\"b\":4}"}
BlockLists == UNION {[1..n -> BlockTexts] : n \in 0..MaxBlocks}
DefaultProps == {NoProps, [a |-> 1, b |-> 1]}
OverrideProps == {NoProps, [a |-> 2, b |-> 2]}

\* ---- the inputs of the host resolution
Selectors == {"", ".w", "#e2", ".none"}
Scripts ==
    {NoScript} \cup {Script(parent, mountIn) : parent \in {""} \cup Elements,
                                               mountIn \in Selectors}
\* a current script is one of the document's scripts, so a last one exists
ScriptPairs ==
    {sc \in [current : Scripts, last : Scripts] : sc.current.exists => sc.last.exists}
ResolveOptions ==
    {[BaseOptions EXCEPT !.inline = i, !.clientSpecified = c, !.selector = s] :
        i \in BOOLEAN, c \in BOOLEAN, s \in Selectors}

\* the attributes an <x-widget> may carry
CeAttrLists == {<<>>, <<Attr("data-prop-a", "1")>>, <<Attr("data-prop-a", "true")>>}

UpdateProps == {[a |-> 2, b |-> Undefined], [a |-> Undefined, b |-> 3]}
\* the isIntersecting flags of the entries one observer callback may carry
EntryLists == {<<FALSE>>, <<TRUE>>, <<FALSE, TRUE>>, <<TRUE, TRUE>>}

\* factory.renderOne(element, props)
RenderOne(f, e, p) ==
    /\ count < MaxInst
    /\ Commit(renderOne(State, f, e, p), Call("renderOne", f, e, count + 1, p))

\* factory.render(options)
Render(f, c) ==
    /\ HabitatOptions(c).tagName = ""
          => count + Len(findHostElements(HabitatOptions(c))) <= MaxInst
    /\ Commit(renderAll(State, f, c), Call("render", f, "", 0, c))

\* instance.unmount(), on any handle ever returned
Unmount(i) ==
    /\ i <= count
    /\ Commit(unmount(State, i), Call("unmount", inst[i].fac, inst[i].el, i, NoProps))

\* instance.update(newProps), on any handle ever returned
Update(i, p) ==
    /\ i <= count
    /\ Commit(update(State, i, p), Call("update", inst[i].fac, inst[i].el, i, p))

\* factory.unmountAll()
UnmountAll(f) ==
    Commit(unmountAll(State, f), Call("unmountAll", f, "", 0, NoProps))

\* the platform delivers visibility entries to the observer of instance i
Intersect(i, entries) ==
    /\ i <= count
    /\ inst[i].obs = "observing"
    /\ Commit(observerCallback(State, i, entries),
              Call("intersect", inst[i].fac, inst[i].el, i,
                   \E k \in DOMAIN entries : entries[k]))

\* a pure function is called and returns
Return(call, r) ==
    /\ op' = call
    /\ ret' = r
    /\ log' = <<>>
    /\ UNCHANGED <<habitatVars, ce, busVars, signalVars, documentVars>>

\* the first step of renderOne on host "e1"
CollectProps(d, p) ==
    Return(Call("collectProps", "", "e1", 0, [defaultProps |-> d, overrideProps |-> p]),
           [NoRet EXCEPT !.props = initialProps(d, "e1", p)])

GetPropsFromAttributes ==
    Return(Call("getPropsFromAttributes", "", "e1", 0, NoProps),
           [NoRet EXCEPT !.props = getPropsFromAttributes("e1")])

GetPropsFromScripts ==
    Return(Call("getPropsFromScripts", "", "e1", 0, NoProps),
           [NoRet EXCEPT !.props = getPropsFromScripts("e1")])

\* liteHabitat.render({ selector: '.w', defaultProps, clean })
LiteRender(d, cleanFirst) ==
    Commit(liteRender(State, ".w", d, cleanFirst),
           Call("liteRender", "", "", 0, [defaultProps |-> d, clean |-> cleanFirst]))

\* ---- the platform's custom-element lifecycle
\* what a callback of element k did: the element's new state, the call, its events
Callback(k, x, name, arg, evs) ==
    /\ ce' = [ce EXCEPT ![k] = x]
    /\ op' = Call(name, "", k, 0, arg)
    /\ log' = evs
    /\ UNCHANGED <<habitatVars, busVars, signalVars, documentVars, ret>>
\* the parser or document.createElement builds an <x-widget> with attributes
CreateElement(k, attrs) ==
    /\ ~ce[k].created
    /\ defined["x-widget"] # NoDef
    /\ Callback(k, constructor(defined["x-widget"].cfg, attrs), "constructor", FALSE, <<>>)

\* the element is inserted into a document
Connected(k) ==
    /\ ce[k].created
    /\ Callback(k, [connectedCallback(ce[k], k) EXCEPT !.attached = TRUE],
                "connectedCallback", ce[k].attached,
                <<EvP("render", k, 0, ce[k].cfg, connectedCallback(ce[k], k).props)>>)

\* the element is removed from its document
Disconnected(k) ==
    /\ ce[k].created
    /\ Callback(k, [disconnectedCallback(ce[k], k) EXCEPT !.attached = FALSE],
                "disconnectedCallback", ce[k].attached,
                IF ce[k].mounted THEN <<Ev("renderNull", k, 0, ce[k].cfg)>> ELSE <<>>)

\* element.setAttribute / removeAttribute: observedAttributes is empty, so the
\* platform calls nothing
SetAttribute(k, attrs) ==
    /\ ce[k].created
    /\ ce[k].attrs # attrs
    /\ Callback(k, [ce[k] EXCEPT !.attrs = attrs], "setAttribute", ce[k].attached, <<>>)

\* the attribute callback is invoked
AttributeChanged(k) ==
    /\ ce[k].created
    /\ Callback(k, attributeChangedCallback(ce[k], k),
                "attributeChangedCallback", ce[k].attached,
                IF ce[k].mounted
                THEN <<EvP("render", k, 0, ce[k].cfg,
                           attributeChangedCallback(ce[k], k).props)>>
                ELSE <<>>)

\* element.setProps(newProps)
SetProps(k, p) ==
    /\ ce[k].created
    /\ Callback(k, setProps(ce[k], p), "setProps", ce[k].attached,
                IF ce[k].mounted
                THEN <<EvP("render", k, 0, ce[k].cfg, setProps(ce[k], p).props)>>
                ELSE <<>>)

\* ---- the calls on the event bus
\* an unsubscribe closure: () => this.off(event, callback); stale tells that
\* the subscription it was returned for is gone (an observation)
Closure(t, cb) == [topic |-> t, cb |-> cb, stale |-> FALSE]
\* the closures once the bus holds the subscriptions ev
Aged(cs, ev) ==
    {[c EXCEPT !.stale = @ \/ c.topic \notin DOMAIN ev
                           \/ c.cb \notin {ev[c.topic][k] : k \in DOMAIN ev[c.topic]}] :
        c \in cs}

BusCall(b, name, t, cb, args) ==
    /\ events' = [u \in DOMAIN b.events |-> Compact(b.events[u])]
    /\ closures' = Aged(IF name = "subscribe" THEN closures \cup {Closure(t, cb)}
                        ELSE closures, events')
    /\ op' = [Call(name, "", "", 0, [topic |-> t, cb |-> cb, args |-> args])
                 EXCEPT !.raised = b.raised]
    /\ log' = b.log
    /\ UNCHANGED <<habitatVars, ce, signalVars, documentVars, ret>>

\* eventBus.on(topic, callback), the closure it returns dropped
On(t, cb) == BusCall(on(Bus, t, cb), "on", t, cb, 0)

\* const unsubscribe = eventBus.on(topic, callback)
Subscribe(t, cb) == BusCall(on(Bus, t, cb), "subscribe", t, cb, 0)

\* unsubscribe(), on any closure ever returned; the call records whether the
\* closure was stale
Unsubscribe(c) ==
    BusCall(off(Bus, c.topic, c.cb), "unsubscribe", c.topic, c.cb,
            IF c.stale THEN JsTrue ELSE JsFalse)

\* eventBus.off(topic, callback)
Off(t, cb) == BusCall(off(Bus, t, cb), "off", t, cb, 0)

\* eventBus.emit(topic, args)
EmitTopic(t, args) == BusCall(emit(Bus, t, args), "emit", t, "", args)

\* eventBus.clear()
Clear == BusCall(clear(Bus), "clear", "", "", 0)

\* a call on the signal store
SignalCall(g, name, key, arg, requested) ==
    /\ signals' = [globalStore |-> g.globalStore, value |-> g.value,
                   created |-> g.created, requested |-> requested]
    /\ ret' = g.ret
    /\ op' = Call(name, "", "", 0, [key |-> key, arg |-> arg])
    /\ log' = <<>>
    /\ UNCHANGED <<habitatVars, ce, busVars, store, documentVars>>

GetSignal(key, initialValue) ==
    /\ has(signals.globalStore, key) \/ signals.created < MaxSignals
    /\ SignalCall(getSignal(Signals, key, initialValue), "getSignal", key, initialValue,
                  signals.requested \cup {key})
HasSignal(key) ==
    SignalCall(hasSignal(Signals, key), "hasSignal", key, 0, signals.requested)
DeleteSignal(key) ==
    SignalCall(deleteSignal(Signals, key), "deleteSignal", key, 0,
               signals.requested \ {key})
ClearSignals == SignalCall(clearSignals(Signals), "clearSignals", "", 0, {})
GetSignalKeys ==
    SignalCall(getSignalKeys(Signals), "getSignalKeys", "", 0, signals.requested)
\* a caller writes through a reference it holds, be its signal stored or not
SetValue(sig, v) ==
    /\ sig <= signals.created
    /\ SignalCall(setValue(Signals, sig, v), "setValue", "", [signal |-> sig, value |-> v],
                  signals.requested)

\* a call on the store
StoreCall(st, name, key, arg, r) ==
    /\ store' = [state |-> st.state, effects |-> st.effects, created |-> st.created]
    /\ ret' = r
    /\ op' = Call(name, "", "", 0, [key |-> key, arg |-> arg])
    /\ log' = st.log
    /\ UNCHANGED <<habitatVars, ce, busVars, signals, documentVars>>

\* store.actions[key](arg)
BoundAction(key, arg) == StoreCall(boundAction(Store, key, arg), "action", key, arg, NoRet)
\* const unsubscribe = store.subscribe(callback)
StoreSubscribe(cb) ==
    /\ store.created < MaxEffects
    /\ StoreCall(subscribe(Store, cb), "subscribe", cb, store.created + 1, NoRet)
\* unsubscribe(), on any function subscribe returned
Dispose(id) ==
    /\ id <= store.created
    /\ StoreCall(dispose(Store, id), "dispose", store.effects[id].cb, id, NoRet)
\* store.getSnapshot()
GetSnapshot ==
    StoreCall(Store, "getSnapshot", "", 0, [NoRet EXCEPT !.props = store.state])

FindHostElements(o) ==
    Return(Call("findHostElements", "", "", 0, o),
           [NoRet EXCEPT !.elements = findHostElements(o)])

\* the calls made on the factories F, with configurations C, override props O
\* and update props U
NextOf(F, C, O, U) ==
    \/ \E f \in F, e \in Elements, p \in O : RenderOne(f, e, p)
    \/ \E f \in F, c \in C : Render(f, c)
    \/ \E i \in InstIds : Unmount(i)
    \/ \E i \in InstIds, p \in U : Update(i, p)
    \/ \E f \in F : UnmountAll(f)
    \/ \E i \in InstIds, entries \in EntryLists : Intersect(i, entries)

\* several factories mounting onto the same host elements
Next == NextOf(Factories, {"hooks", "shadow", "lazy"}, {NoProps}, {[a |-> 2, b |-> Undefined]})
Spec == Init /\ [][Next]_vars

\* one factory, every configuration
NextOne == NextOf({"f1"}, ConfigNames, {NoProps}, {[a |-> 2, b |-> Undefined]})
SpecOne == Init /\ [][NextOne]_vars

\* one factory, successive updates
NextUpdate == NextOf({"f1"}, {"hooks", "lazy"}, {NoProps}, UpdateProps)
SpecUpdate == Init /\ [][NextUpdate]_vars

\* one factory with deferred activation, on a platform with or without an
\* IntersectionObserver
InitLazy ==
    /\ InitProgram
    /\ hostAttrs = E1Attrs
    /\ hostBlocks = E1Blocks
    /\ hostNested = {}
    /\ script = NoScripts
    /\ intersectionObserver \in BOOLEAN
NextLazy == NextOf({"f1"}, {"lazy"}, {NoProps}, {[a |-> 2, b |-> Undefined]})
SpecLazy == InitLazy /\ [][NextLazy]_vars

\* one factory that cleans the host before the mount, "e1" holding any
\* blocks, directly or inside other children
CleanBlockLists == UNION {[1 .. n -> {"{\"a\":3}", "{\"a\":4,\"b\":4}"}] : n \in 0 .. 2}
InitClean ==
    /\ InitProgram
    /\ hostAttrs \in {<<>>, E1Attrs}
    /\ hostBlocks \in CleanBlockLists
    /\ hostNested \in SUBSET DOMAIN hostBlocks
    /\ script = NoScripts
    /\ intersectionObserver = TRUE
NextClean ==
    \/ \E e \in Elements : RenderOne("f1", e, NoProps)
    \/ \E c \in CleanConfigs : Render("f1", c)
    \/ \E i \in InstIds : Unmount(i)
    \/ \E i \in InstIds : Update(i, [a |-> 2, b |-> Undefined])
    \/ GetPropsFromScripts
    \/ CollectProps(NoProps, NoProps)
SpecClean == InitClean /\ [][NextClean]_vars

\* prop extraction from a host element with any attributes and blocks
InitProps ==
    /\ InitProgram
    /\ hostAttrs \in AttrLists
    /\ hostBlocks \in BlockLists
    /\ hostNested = {}
    /\ script = NoScripts
    /\ intersectionObserver = TRUE
NextProps ==
    \/ \E d \in DefaultProps, p \in OverrideProps : CollectProps(d, p)
    \/ GetPropsFromAttributes
    \/ GetPropsFromScripts
SpecProps == InitProps /\ [][NextProps]_vars

\* the lite module and the full prop extraction on the same host element
NextLite ==
    \/ \E d \in DefaultProps, cleanFirst \in BOOLEAN : LiteRender(d, cleanFirst)
    \/ \E d \in DefaultProps : CollectProps(d, NoProps)
SpecLite == InitProps /\ [][NextLite]_vars

\* host resolution in a document with any script elements
InitResolve ==
    /\ InitProgram
    /\ hostAttrs = E1Attrs
    /\ hostBlocks = E1Blocks
    /\ hostNested = {}
    /\ script \in ScriptPairs
    /\ intersectionObserver = TRUE
NextResolve == \E o \in ResolveOptions : FindHostElements(o)
SpecResolve == InitResolve /\ [][NextResolve]_vars

\* custom elements next to selector mounts
NextCE ==
    \/ \E f \in Factories, c \in TagConfigs \cup {"replace"} : Render(f, c)
    \/ \E k \in CeNames, attrs \in CeAttrLists : CreateElement(k, attrs)
    \/ \E k \in CeNames : Connected(k)
    \/ \E k \in CeNames : Disconnected(k)
    \/ \E k \in CeNames, attrs \in CeAttrLists : SetAttribute(k, attrs)
    \/ \E k \in CeNames : AttributeChanged(k)
    \/ \E k \in CeNames : SetProps(k, [a |-> 2, b |-> Undefined])
SpecCE == Init /\ [][NextCE]_vars

\* the event bus: the callbacks that change subscriptions close over topic
\* "x", where every callback may be subscribed
SubscribableTo(t) == IF t = "x" THEN Callbacks ELSE {"plain", "thrower"}
NextBus ==
    \/ \E t \in Topics : \E cb \in SubscribableTo(t) : On(t, cb)
    \/ \E t \in Topics : \E cb \in SubscribableTo(t) : Off(t, cb)
    \/ \E t \in Topics, args \in {7, 8} : EmitTopic(t, args)
    \/ Clear
SpecBus == Init /\ [][NextBus]_vars

\* the event bus with callbacks that subscribe, and unsubscribe and
\* subscribe themselves again, during the pass
Dispatchers == {"plain", "adder", "resub"}
NextDispatch ==
    \/ \E cb \in Dispatchers : On("x", cb)
    \/ \E cb \in Dispatchers \cup {"late"} : Off("x", cb)
    \/ \E args \in {7, 8} : EmitTopic("x", args)
    \/ Clear
SpecDispatch == Init /\ [][NextDispatch]_vars

\* the signal store and the callers that hold the signals it returned
NextSignals ==
    \/ \E key \in SignalKeys, v \in SignalValues : GetSignal(key, v)
    \/ \E key \in SignalKeys : HasSignal(key)
    \/ \E key \in SignalKeys : DeleteSignal(key)
    \/ ClearSignals
    \/ GetSignalKeys
    \/ \E sig \in SignalIds, v \in SignalValues : SetValue(sig, v)
SpecSignals == Init /\ [][NextSignals]_vars

\* one store and its subscribers
NextStore ==
    \/ \E key \in ActionNames, arg \in {1, 2} : BoundAction(key, arg)
    \/ \E cb \in StoreCallbacks : StoreSubscribe(cb)
    \/ \E id \in EffectIds : Dispose(id)
    \/ GetSnapshot
SpecStore == Init /\ [][NextStore]_vars

\* the event bus with callers that keep the unsubscribe closures; the
\* callbacks leave the subscriptions alone
Subscribers == {"plain", "late"}
NextSubs ==
    \/ \E t \in Topics, cb \in Subscribers : Subscribe(t, cb)
    \/ \E c \in closures : Unsubscribe(c)
    \/ \E t \in Topics, cb \in Subscribers : Off(t, cb)
    \/ \E t \in Topics, args \in {7, 8} : EmitTopic(t, args)
    \/ Clear
SpecSubs == Init /\ [][NextSubs]_vars

\* ======================================================== properties
Range(seq) == {seq[k] : k \in DOMAIN seq}
CountIn(reg, I, f, e) == Cardinality({k \in DOMAIN reg[f] : I[reg[f][k]].el = e})
CountFor(f, e) == CountIn(instances, inst, f, e)
LogCount(l, ev) == Cardinality({k \in DOMAIN l : l[k].ev = ev})
LogCountOf(l, ev, i) == Cardinality({k \in DOMAIN l : l[k].ev = ev /\ l[k].id = i})
HookEvents == {"onBeforeMount", "onMounted", "onUnmount"}
\* instance i is the one its host element's HabitatMeta belongs to, and is registered
IsLive(i) == /\ i <= count
             /\ meta[inst[i].el].unmount = i
             /\ i \in Range(instances[inst[i].fac])
MetaOf(m, I, f) == {e \in Elements : m[e] # NoMeta /\ I[m[e].unmount].fac = f}

\* C1: after any sequence of render, renderOne, update, unmount and unmountAll
\* calls on one factory (stale handles included), the registry holds at most one
\* instance per host element.
C1_OnePerElement == \A f \in Factories, e \in Elements : CountFor(f, e) <= 1

\* a re-mount onto an occupied host, while a handle of an unmounted instance exists
C1_Witness ==
    /\ op.name = "renderOne" /\ ~op.raised
    /\ LogCount(log, "warn") = 1
    /\ CountFor("f1", op.el) = 1
    /\ \E i \in InstIds : inst[i].gone /\ inst[i].el = op.el

\* C2: renderOne on a host element that already carries a mounted widget
\* completes without raising, leaves exactly one instance for that element and
\* leaves the registry as long as it was after the first mount, for every
\* configuration.
C2_RemountKeepsOne ==
    [][(op'.name = "renderOne" /\ meta[op'.el] # NoMeta)
        => /\ ~op'.raised
           /\ CountIn(instances', inst', op'.fac, op'.el) = 1
           /\ Len(instances'[op'.fac]) = Len(instances[op'.fac])]_vars

\* C3: the first unmount of a live instance empties its render target, clears
\* the host's HabitatMeta, invokes onUnmount once and removes the instance from
\* the registry; a second unmount of the same instance invokes no hook and
\* leaves the registry and every HabitatMeta unchanged.
C3_UnmountIdempotent ==
    [][op'.name = "unmount"
        => LET i == op'.id
               e == inst[i].el
               f == inst[i].fac
           IN  /\ (~inst[i].gone /\ IsLive(i))
                    => /\ dom'[e][inst[i].root] = EmptyTree
                       /\ meta'[e] = NoMeta
                       /\ LogCount(log', "onUnmount")
                            = (IF HabitatOptions(globalOptions[f]).onUnmount THEN 1 ELSE 0)
                       /\ i \notin Range(instances'[f])
               /\ inst[i].gone
                    => /\ ~op'.raised
                       /\ LogCount(log', "onUnmount") = 0
                       /\ instances' = instances
                       /\ meta' = meta]_vars

\* C4: for every factory the registry is as long as the number of host elements
\* carrying a HabitatMeta created by that factory, and no instance is in the
\* registries of two factories.
C4_RegistryMatchesMeta ==
    /\ \A f \in Factories : Len(instances[f]) = Cardinality(MetaOf(meta, inst, f))
    /\ \A f, g \in Factories :
          f # g => Range(instances[f]) \cap Range(instances[g]) = {}

\* C5: once an instance mounted with lazy has been unmounted, no visibility
\* event performs its activation (no render or hydrate into its render target).
C5_NoActivationAfterUnmount ==
    (op.name = "intersect" /\ inst[op.id].gone) => LogCount(log, "activate") = 0

\* C6: a lazy mount does not activate by itself; a visibility callback activates
\* exactly once if it carries an intersecting entry and not at all otherwise,
\* and the observer is disconnected exactly when an entry intersected.
C6_ActivatesOnce ==
    /\ (op.name = "renderOne" /\ ~op.raised /\ HabitatOptions(globalOptions[op.fac]).lazy)
          => LogCount(log, "activate") = 0
    /\ op.name = "intersect"
          => /\ LogCount(log, "activate") = (IF op.arg THEN 1 ELSE 0)
             /\ inst[op.id].obs = (IF op.arg THEN "disconnected" ELSE "observing")

\* C7: after update(partial) on a live instance, the instance's props field is
\* its previous props with partial merged over them, and the component is
\* rendered with exactly those props in the same render target.
C7_UpdateMergesProps ==
    [][(op'.name = "update" /\ IsLive(op'.id))
        => LET i == op'.id
           IN  /\ inst'[i].props = Spread(inst[i].props, op'.arg)
               /\ inst'[i].root = inst[i].root
               /\ dom'[inst[i].el][inst[i].root] = Tree(inst'[i].props, "render")]_vars

\* C8: update invokes no hook, does not extract props from the host element
\* again, and leaves the registries, every HabitatMeta, the render target's
\* identity, the options and every other instance and render target unchanged.
C8_UpdateFrame ==
    [][op'.name = "update"
        => LET i == op'.id
           IN  /\ \A k \in DOMAIN log' : log'[k].ev \notin HookEvents \cup {"collectProps"}
               /\ instances' = instances
               /\ meta' = meta
               /\ shadow' = shadow
               /\ globalOptions' = globalOptions
               /\ count' = count
               /\ inst'[i].root = inst[i].root /\ inst'[i].el = inst[i].el
               /\ \A j \in InstIds \ {i} : inst'[j] = inst[j]
               /\ \A e \in Elements, r \in {"light", "shadow"} :
                     (e # inst[i].el \/ r # inst[i].root) => dom'[e][r] = dom[e][r]]_vars

\* an update of a live instance of a factory whose options carry all three hooks
C8_Witness ==
    /\ op.name = "update"
    /\ IsLive(op.id)
    /\ HabitatOptions(globalOptions[op.fac]).onMounted
    /\ HabitatOptions(globalOptions[op.fac]).onUnmount
    /\ inst[op.id].cur # inst[op.id].vnode
    /\ dom[op.el][inst[op.id].root] = Tree(inst[op.id].cur, "render")

\* C9: after unmountAll the factory's registry is empty, no host element
\* carries a HabitatMeta of the factory, and onUnmount (when the options carry
\* it) has been invoked exactly once for each instance that was registered.
C9_UnmountAll ==
    [][op'.name = "unmountAll"
        => LET f == op'.fac
           IN  /\ ~op'.raised
               /\ instances'[f] = <<>>
               /\ MetaOf(meta', inst', f) = {}
               /\ \A i \in Range(instances[f]) :
                     LogCountOf(log', "onUnmount", i)
                       = (IF HabitatOptions(globalOptions[f]).onUnmount THEN 1 ELSE 0)
               /\ LogCount(log', "onUnmount")
                     = (IF HabitatOptions(globalOptions[f]).onUnmount
                        THEN Len(instances[f]) ELSE 0)]_vars

\* unmountAll has unmounted two registered instances, invoking the hook for each
C9_Witness ==
    /\ op.name = "unmountAll"
    /\ LogCount(log, "onUnmount") = 2
    /\ LogCount(log, "renderNull") = 2
    /\ instances[op.fac] = <<>>

\* C10: within one mount the events come in the order before-mount hook,
\* activation, recording of HabitatMeta and registry entry, after-mount hook; so
\* whenever onMounted is invoked the component has been rendered or hydrated
\* into the render target of that mount.
Pos(l, ev, i) == {k \in DOMAIN l : l[k].ev = ev /\ l[k].id = i}
Before(A, B) == \A a \in A, b \in B : a < b
C10_MountOrder ==
    \A k \in DOMAIN log :
        log[k].ev = "onMounted"
          => LET i == log[k].id
             IN  /\ Pos(log, "activate", i) # {}
                 /\ Before(Pos(log, "onBeforeMount", i), Pos(log, "activate", i))
                 /\ Before(Pos(log, "activate", i), Pos(log, "setHabitatMeta", i))
                 /\ Before(Pos(log, "setHabitatMeta", i), Pos(log, "push", i))
                 /\ Before(Pos(log, "push", i), {k})

\* C11: the props a before-mount hook returns replace the computed props as
\* they are, unmerged, in what is rendered, in the instance's props and in what
\* the after-mount hook receives; when the hook returns nothing the computed
\* merged props are in all three places
C11_HookReplacement ==
    \A k \in DOMAIN log :
        log[k].ev = "onMounted"
          => LET i == log[k].id
                 e == log[k].el
                 o == HabitatOptions(log[k].cfg)
                 override == IF op.name = "renderOne" THEN op.arg ELSE NoProps
                 computed == Spread(Spread(Spread(o.defaultProps, override),
                                           getPropsFromScripts(e)),
                                    getPropsFromAttributes(e))
                 expected == IF o.onBeforeMount = "replace"
                             THEN HookReplacement ELSE computed
             IN  /\ o.onBeforeMount # "none"
                   => \E j \in 1..(k - 1) :
                          log[j] = EvP("onBeforeMount", e, i, log[k].cfg, computed)
                 /\ log[k].props = expected
                 /\ inst[i].props = expected
                 /\ inst[i].vnode = expected
                 /\ ~o.lazy => /\ EvP("activate", e, i, "", expected) \in Range(log)
                               /\ dom[e][inst[i].root].props = expected

\* a hook replaced computed props that define a key the replacement lacks
C11_Witness ==
    /\ op.name = "renderOne" /\ ~op.raised /\ op.el = "e1"
    /\ globalOptions[op.fac] = "replace"
    /\ EvP("onMounted", "e1", op.id, "replace", HookReplacement) \in Range(log)
    /\ collectProps("e1", NoProps).b # Undefined
    /\ inst[op.id].props = HookReplacement

\* the hook returned nothing and the computed props were mounted
C11_WitnessVoid ==
    /\ op.name = "render" /\ op.arg = "hooks" /\ ~op.raised
    /\ EvP("onMounted", "e1", 1, "hooks", [a |-> 1, b |-> 2]) \in Range(log)

\* the prefixed attribute of host "e1" that defines key k, 0 when none does
AttrFor(k) ==
    LET D == {i \in DOMAIN hostAttrs :
                 startsWithPrefix(hostAttrs[i].name) /\ propName(hostAttrs[i].name) = k}
    IN  IF D = {} THEN 0 ELSE CHOOSE i \in D : TRUE
\* the last well-formed block of host "e1" that defines key k, 0 when none does
BlockFor(k) ==
    LET D == {i \in DOMAIN hostBlocks :
                 /\ JSONparse(trim(hostBlocks[i])).ok
                 /\ JSONparse(trim(hostBlocks[i])).props[k] # Undefined}
    IN  IF D = {} THEN 0 ELSE CHOOSE i \in D : \A j \in D : j <= i
BlockValue(k) == JSONparse(trim(hostBlocks[BlockFor(k)])).props[k]

\* C12: for every key the merged props take the attribute-derived value if a
\* prefixed attribute defines the key, otherwise the data-block value if a
\* block defines it, otherwise the renderOne override if given, otherwise the
\* configuration default
C12_Precedence ==
    op.name = "collectProps"
      => \A k \in Keys :
             ret.props[k] =
                 IF AttrFor(k) # 0 THEN parseValue(hostAttrs[AttrFor(k)].value)
                 ELSE IF BlockFor(k) # 0 THEN BlockValue(k)
                 ELSE IF op.arg.overrideProps[k] # Undefined THEN op.arg.overrideProps[k]
                 ELSE op.arg.defaultProps[k]

\* all four sources define key a and the attribute wins; defaults, override
\* and a block define key b and the block wins
C12_Witness ==
    /\ op.name = "collectProps"
    /\ op.arg = [defaultProps |-> [a |-> 1, b |-> 1], overrideProps |-> [a |-> 2, b |-> 2]]
    /\ hostAttrs = <<Attr("data-prop-a", "42")>>
    /\ hostBlocks = <<"{\"a\":4,\"b\":4}">>
    /\ ret.props = [a |-> 42, b |-> 4]

\* C13: data blocks are merged in document order, later blocks overwriting
\* earlier ones on equal keys; a malformed block contributes no key and the
\* well-formed blocks before and after it are still merged
C13_BlocksMerged ==
    op.name = "getPropsFromScripts"
      => /\ ~op.raised
         /\ \A k \in Keys :
                ret.props[k] = IF BlockFor(k) # 0 THEN BlockValue(k) ELSE Undefined

\* a malformed block between two well-formed ones
C13_Witness ==
    /\ op.name = "getPropsFromScripts"
    /\ hostBlocks = <<"{\"a\":4,\"b\":4}", "{broken", "{\"a\":3}">>
    /\ ret.props = [a |-> 3, b |-> 4]

\* the value the coercion rules give, the first match winning
Coerced(value) ==
    CASE value \in {"true", "false"} -> IF value = "true" THEN JsTrue ELSE JsFalse
      [] value = "null" -> JsNull
      [] value \notin {"true", "false", "null"}
           /\ value # "" /\ ~isNaN(Number(value)) -> Number(value)
      [] value \notin {"true", "false", "null"}
           /\ (value = "" \/ isNaN(Number(value)))
           /\ JSONparse(value).ok
           /\ JSONparse(value).kind \in {"object", "array"} -> JSONparse(value).value
      [] OTHER -> Str(value)

\* C14: attribute coercion: 'true'/'false' give booleans, 'null' gives null, a
\* non-empty value that parses entirely as a number gives that number, a value
\* that parses as a structured document is kept parsed only when the result is
\* an object or array, every other value is kept as the raw string
C14_Coercion ==
    op.name = "getPropsFromAttributes"
      => \A i \in DOMAIN hostAttrs :
             startsWithPrefix(hostAttrs[i].name)
               => ret.props[propName(hostAttrs[i].name)] = Coerced(hostAttrs[i].value)

\* the parent of the script getCurrentScript finds, as a list
ScriptParent ==
    IF getCurrentScript.exists /\ getCurrentScript.parent # ""
    THEN <<getCurrentScript.parent>> ELSE <<>>
\* the elements matching the data-mount-in selector of that script
MountInTargets ==
    IF getCurrentScript.exists /\ getCurrentScript.mountIn # ""
    THEN querySelectorAll(getCurrentScript.mountIn) ELSE <<>>

\* C15: host resolution honors one strategy per call, by the priority inline >
\* clientSpecified > selector: inline gives only the script's parent (or
\* nothing) whatever else is requested, clientSpecified without inline ignores
\* the selector, and the result is empty when no strategy is requested or the
\* chosen one matches nothing
C15_OneStrategy ==
    op.name = "findHostElements"
      => LET o == op.arg
         IN  /\ o.inline => ret.elements = ScriptParent
             /\ ~o.inline /\ o.clientSpecified => ret.elements = MountInTargets
             /\ ~o.inline /\ ~o.clientSpecified
                   => ret.elements = querySelectorAll(o.selector)
             /\ ~o.inline /\ ~o.clientSpecified /\ o.selector = ""
                   => ret.elements = <<>>

\* all three strategies requested, each matching other elements: only the
\* script's parent is returned
C15_Witness ==
    /\ op.name = "findHostElements"
    /\ op.arg.inline /\ op.arg.clientSpecified /\ op.arg.selector = ".w"
    /\ script.current = Script("e1", "#e2")
    /\ ret.elements = <<"e1">>

\* clientSpecified requested with a matching selector: the selector is ignored
C15_WitnessClient ==
    /\ op.name = "findHostElements"
    /\ ~op.arg.inline /\ op.arg.clientSpecified /\ op.arg.selector = ".w"
    /\ ~script.current.exists /\ script.last = Script("e1", ".none")
    /\ ret.elements = <<>>

CeCalls ==
    {"constructor", "connectedCallback", "disconnectedCallback", "setAttribute",
     "attributeChangedCallback", "setProps"}

\* C16: a render call whose configuration carries a tagName mounts no host
\* element, even with a selector, and adds nothing to the registry; no custom
\* element created, attached, changed or detached ever appears in any
\* factory's instances list
C16_TagBypass ==
    [][/\ op'.name = "render" /\ HabitatOptions(op'.arg).tagName # ""
          => /\ instances' = instances /\ inst' = inst /\ count' = count
             /\ meta' = meta /\ dom' = dom /\ shadow' = shadow
             /\ \A j \in DOMAIN log' : log'[j].ev = "warn"
       /\ op'.name \in CeCalls
          => /\ instances' = instances /\ inst' = inst /\ meta' = meta
       /\ \A f \in Factories : \A j \in DOMAIN instances'[f] :
              inst'[instances'[f][j]].el \notin CeNames]_vars

\* a factory configured with a tagName and a selector matching two elements
\* has mounted nothing, and the attached custom element is in no registry
\* while another factory's registry holds its selector mount
C16_Witness ==
    /\ op.name = "connectedCallback"
    /\ ce["c1"].attached /\ ce["c1"].dom[ce["c1"].root].kind = "widget"
    /\ globalOptions["f1"] = "tag" /\ instances["f1"] = <<>>
    /\ querySelectorAll(HabitatOptions("tag").selector) = <<"e1", "e2">>
    /\ meta["e1"] = NoMeta
    /\ Len(instances["f2"]) = 1 /\ inst[instances["f2"][1]].el = "e2"

\* C17: registering a custom element under a name already registered, by this
\* or another factory, with the same or other options, never raises and
\* leaves the element registry unchanged; elements created afterwards are of
\* the first registration
C17_DuplicateRegistration ==
    [][/\ /\ op'.name = "render"
          /\ HabitatOptions(op'.arg).tagName # ""
          /\ defined[HabitatOptions(op'.arg).tagName] # NoDef
          => /\ defined' = defined
             /\ ~op'.raised
             /\ log' = <<Ev("warn", "", 0, op'.arg)>>
       /\ op'.name = "constructor" => ce'[op'.el].cfg = defined["x-widget"].cfg
       /\ \A tag \in Tags : defined[tag] # NoDef => defined'[tag] = defined[tag]]_vars

\* another factory registered the name again with other options, and the
\* element created afterwards is of the first registration
C17_Witness ==
    /\ op.name = "constructor"
    /\ defined["x-widget"] = [fac |-> "f1", cfg |-> "tag"]
    /\ globalOptions["f2"] = "tagLight"
    /\ ce["c1"].cfg = "tag" /\ ce["c1"].root = "shadow"

\* C18: the component is rendered in the element's own render target exactly
\* while the element is attached: each attach, and each attribute callback
\* while attached, extracts the props again and renders them; an attribute
\* callback while detached renders nothing; each detach of an attached
\* element renders the empty tree into the same target
C18_RenderedWhileAttached ==
    \A k \in CeNames :
        LET x == ce[k]
            other == IF x.root = "shadow" THEN "light" ELSE "shadow"
            extracted == collectProps(k, HabitatOptions(x.cfg).defaultProps)
        IN  x.created
              => /\ x.dom[x.root].kind = "widget" <=> x.attached
                 /\ x.dom[other] = EmptyTree
                 /\ x.root = IF HabitatOptions(x.cfg).shadowRoot = "false"
                             THEN "light" ELSE "shadow"
                 /\ op.el = k /\ op.name = "connectedCallback"
                       => /\ x.dom[x.root] = Tree(extracted, "render")
                          /\ log = <<EvP("render", k, 0, x.cfg, extracted)>>
                 /\ op.el = k /\ op.name = "attributeChangedCallback" /\ op.arg
                       => /\ x.dom[x.root] = Tree(extracted, "render")
                          /\ log = <<EvP("render", k, 0, x.cfg, extracted)>>
                 /\ op.el = k /\ op.name = "attributeChangedCallback" /\ ~op.arg
                       => log = <<>>
                 /\ op.el = k /\ op.name = "disconnectedCallback" /\ op.arg
                       => /\ x.dom[x.root] = EmptyTree
                          /\ log = <<Ev("renderNull", k, 0, x.cfg)>>

\* an attribute callback on an attached element rendered props that differ
\* from the ones of the attach
C18_Witness ==
    /\ op.name = "attributeChangedCallback" /\ op.arg
    /\ ce["c1"].cfg = "tagLight" /\ ce["c1"].root = "light"
    /\ ce["c1"].attrs = <<Attr("data-prop-a", "true")>>
    /\ ce["c1"].dom.light = Tree([a |-> JsTrue, b |-> 3], "render")

\* an attribute callback on a detached element rendered nothing
C18_WitnessDetached ==
    /\ op.name = "attributeChangedCallback" /\ ~op.arg
    /\ ce["c1"].attrs # <<>> /\ ~ce["c1"].attached
    /\ ce["c1"].dom[ce["c1"].root] = EmptyTree

\* the callbacks subscribed to topic t
Subscribed(t) == IF t \in DOMAIN events THEN Range(events[t]) ELSE {}
\* the callbacks invoked according to the events l of an emit
Invoked(l) == {l[k].cb : k \in {j \in DOMAIN l : l[j].ev = "call"}}
\* the callbacks that subscribe or unsubscribe when invoked
Mutators == {"adder", "remover"}

\* C19: the callbacks invoked by one emit(topic) call are exactly the ones
\* subscribed to the topic when emit was called, whatever the callbacks do
\* during the pass: a callback subscribed during the pass is not invoked in
\* it, one unsubscribed during the pass before its turn still is
C19_EmitSnapshot ==
    [][op'.name = "emit" => Invoked(log') = Subscribed(op'.arg.topic)]_vars

\* C20: when a callback raises during emit the error does not reach the
\* caller, the raising callback stays subscribed, and (no callback changing
\* the subscriptions) every callback subscribed to the topic is invoked once
\* with the same arguments and the subscriptions are left as they were
C20_RaiseContained ==
    [][op'.name = "emit"
         => LET t == op'.arg.topic
                S == Subscribed(t)
            IN  /\ ~op'.raised
                /\ "thrower" \in S
                      => /\ "thrower" \in Range(events'[t])
                         /\ BusEv("error", "thrower", t, op'.arg.args) \in Range(log')
                         /\ S \cap Mutators = {}
                               => /\ events' = events
                                  /\ \A cb \in S :
                                         Cardinality({j \in DOMAIN log' :
                                             log'[j] = BusEv("call", cb, t, op'.arg.args)}) = 1
                                  /\ Invoked(log') = S]_vars

\* the first subscriber raised and the second was still invoked
C20_Witness ==
    /\ op.name = "emit" /\ ~op.raised
    /\ events = [u \in {"x"} |-> <<"thrower", "plain">>]
    /\ log = <<BusEv("call", "thrower", "x", 7), BusEv("error", "thrower", "x", 7),
               BusEv("call", "plain", "x", 7)>>

\* the callbacks subscribed to topic t when the bus holds ev
SubscribedIn(ev, t) == IF t \in DOMAIN ev THEN Range(ev[t]) ELSE {}
\* how many times the events l of an emit invoke cb on topic t with args
Invocations(l, cb, t, args) ==
    Cardinality({j \in DOMAIN l : l[j] = BusEv("call", cb, t, args)})

\* C21: emit(topic, args) invokes, each exactly once and with exactly args,
\* the callbacks whose latest subscription to the topic has not been removed
\* by off, by its own unsubscribe closure or by clear, and no other callback.
\* Step by step: on subscribes the callback to the topic and nothing else;
\* off, and a closure whose subscription is still there, remove that callback
\* from that topic and nothing else; a closure whose subscription was already
\* removed removes nothing, so that a later subscription of the same callback
\* stays; clear removes every subscription; emit invokes exactly the
\* callbacks then subscribed and changes no subscription; off and emit on a
\* topic never subscribed change nothing and do not raise
C21_EmitSubscribed ==
    [][LET t == op'.arg.topic
           cb == op'.arg.cb
           others == \A u \in Topics \ {t} :
                         SubscribedIn(events', u) = SubscribedIn(events, u)
       IN  /\ op'.name = "subscribe"
                 => /\ SubscribedIn(events', t) = SubscribedIn(events, t) \cup {cb}
                    /\ others
           /\ \/ op'.name = "off"
              \/ op'.name = "unsubscribe" /\ op'.arg.args = JsFalse
                 => /\ SubscribedIn(events', t) = SubscribedIn(events, t) \ {cb}
                    /\ others
                    /\ ~op'.raised
           /\ op'.name = "unsubscribe" /\ op'.arg.args = JsTrue
                 => /\ SubscribedIn(events', t) = SubscribedIn(events, t)
                    /\ others
                    /\ ~op'.raised
           /\ op'.name = "clear"
                 => \A u \in Topics : SubscribedIn(events', u) = {}
           /\ op'.name = "emit"
                 => /\ \A c \in SubscribedIn(events, t) :
                           Invocations(log', c, t, op'.arg.args) = 1
                    /\ \A j \in DOMAIN log' :
                           log'[j].ev = "call"
                              => /\ log'[j].cb \in SubscribedIn(events, t)
                                 /\ log'[j].topic = t
                                 /\ log'[j].args = op'.arg.args
                    /\ events' = events
                    /\ ~op'.raised
           /\ op'.name \in {"off", "emit"} /\ t \notin DOMAIN events
                 => events' = events /\ log' = <<>> /\ ~op'.raised]_vars

\* C22: a getSignal call for a key that is in the store returns the signal
\* stored for the key and changes neither the store nor any signal's value,
\* its initialValue being ignored; and no call but deleteSignal(key) and
\* clearSignals changes the signal stored for a key. Two getSignal(key)
\* calls with neither of these between them so return one and the same
\* signal, and a value written through one reference is read through the
\* other
C22_SameSignal ==
    [][/\ op'.name = "getSignal" /\ has(signals.globalStore, op'.arg.key)
             => /\ ret'.value = get(signals.globalStore, op'.arg.key)
                /\ signals'.globalStore = signals.globalStore
                /\ signals'.value = signals.value
       /\ \A key \in SignalKeys :
             /\ has(signals.globalStore, key)
             /\ ~(op'.name = "deleteSignal" /\ op'.arg.key = key)
             /\ op'.name # "clearSignals"
             => /\ has(signals'.globalStore, key)
                /\ get(signals'.globalStore, key) = get(signals.globalStore, key)]_vars

\* a second getSignal("k1", 1) returned the first signal, whose value had
\* been set to 2 meanwhile and still is
C22_Witness ==
    /\ op.name = "getSignal" /\ op.arg.key = "k1" /\ op.arg.arg = 1
    /\ signals.created = 1
    /\ ret.value = 1
    /\ signals.value[1] = 2

\* C23: in every state hasSignal(key) holds, and key is among
\* getSignalKeys(), exactly when getSignal(key, _) was called since the last
\* deleteSignal(key) or clearSignals; hasSignal and getSignalKeys report this
\* and leave the store as it is, and deleteSignal(key) returns true exactly
\* when the entry existed
C23_EntriesExplicit ==
    [][/\ \A key \in SignalKeys :
             /\ has(signals'.globalStore, key) <=> key \in signals'.requested
             /\ key \in Range(keys(signals'.globalStore)) <=> key \in signals'.requested
       /\ op'.name = "hasSignal"
             => /\ ret'.flag = (op'.arg.key \in signals.requested)
                /\ signals' = signals
       /\ op'.name = "getSignalKeys"
             => /\ Range(ret'.keys) = signals.requested
                /\ signals' = signals
       /\ op'.name = "deleteSignal"
             => ret'.flag = (op'.arg.key \in signals.requested)]_vars

\* deleteSignal found no entry for the key, another key being stored
C23_Witness ==
    /\ op.name = "deleteSignal" /\ op.arg.key = "k1" /\ ~ret.flag
    /\ signals.created = 2
    /\ keys(signals.globalStore) = <<"k2">>

\* deleteSignal deleted an entry and said so
C23_WitnessDeleted ==
    /\ op.name = "deleteSignal" /\ op.arg.key = "k1" /\ ret.flag
    /\ signals.created = 2
    /\ keys(signals.globalStore) = <<"k2">>

\* the events of effect id among the events l of a call
OfEffect(l, id) == {j \in DOMAIN l : l[j].effect = id}

\* C24: a bound action that returns a partial replaces the store value in
\* one step by the current value with every field of the partial put over
\* it, each subscriber is called once, and every call carries that merged
\* value, never one with only some of the fields applied; an action that
\* returns nothing leaves the value as it was and calls no subscriber
C24_AtomicMerge ==
    [][op'.name = "action"
         => LET key == op'.arg.key
                arg == op'.arg.arg
                merged == [k \in Keys |->
                              CASE key = "setBoth" -> arg
                                [] key = "setA" /\ k = "a" -> arg
                                [] OTHER -> store.state[k]]
            IN  IF key = "nothing"
                THEN store' = store /\ log' = <<>>
                ELSE /\ store'.state = merged
                     /\ \A id \in EffectIds :
                            Cardinality(OfEffect(log', id)) =
                                IF store.effects[id].active THEN 1 ELSE 0
                     /\ \A j \in DOMAIN log' : log'[j].state = merged]_vars

\* setBoth(2) called both subscribers once, each with { a: 2, b: 2 }
C24_Witness ==
    /\ op.name = "action" /\ op.arg.key = "setBoth" /\ op.arg.arg = 2
    /\ store.state = [a |-> 2, b |-> 2]
    /\ log = <<StoreEv(1, "first", store.state), StoreEv(2, "second", store.state)>>

\* an action that returned nothing called no subscriber
C24_WitnessNothing ==
    /\ op.name = "action" /\ op.arg.key = "nothing"
    /\ store.effects[1].active
    /\ store.state = [a |-> 2, b |-> 1]
    /\ log = <<>>

\* C25: a store subscriber is called only for the updates made while it is
\* subscribed: subscribing and unsubscribing call no callback, and an
\* update calls only the subscribers that have not unsubscribed
C25_OnlyUpdates ==
    [][/\ op'.name \in {"subscribe", "dispose"} => log' = <<>>
       /\ op'.name = "action"
             => \A j \in DOMAIN log' : store.effects[log'[j].effect].active]_vars

\* the host elements a call tried to mount on, according to its events l
Attempted(l) == {l[j].el : j \in {k \in DOMAIN l : l[k].ev = "collectProps"}}

\* C26: where the platform has no IntersectionObserver, a mount with
\* deferred activation raises to its caller, does not activate the
\* component, and leaves the host element without HostMeta and without an
\* entry in the registry
C26_NoObserver ==
    [][/\ op'.name \in {"renderOne", "render"}
       /\ HabitatOptions(globalOptions'[op'.fac]).lazy
       /\ ~intersectionObserver
       /\ Attempted(log') # {}
       => /\ op'.raised
          /\ \A j \in DOMAIN log' : log'[j].ev # "activate"
          /\ count' = count
          /\ \A e \in Attempted(log') :
                 /\ meta'[e] = NoMeta
                 /\ \A i \in InstIds :
                        inst'[i].el = e => \A f \in Factories : i \notin Range(instances'[f])]_vars

\* a deferred mount failed on a host element that held a mounted instance,
\* which the attempt had unmounted first
C26_Witness ==
    /\ ~intersectionObserver
    /\ op.name = "render" /\ op.raised
    /\ globalOptions["f1"] = "lazy"
    /\ count = 1 /\ inst[1].el = "e2" /\ inst[1].gone
    /\ meta["e2"] = NoMeta

\* the props the PropExtractor yields for host "e1"
Extracted == initialProps(NoProps, "e1", NoProps)

\* C27: a mount with cleanup-before-mount keeps the data blocks of the host
\* element, wherever they sit under it: the props the PropExtractor yields
\* for the host after the mount are the props it yielded before
C27_CleanKeepsProps ==
    [][/\ op'.name \in {"renderOne", "render"}
       /\ HabitatOptions(globalOptions'[op'.fac]).clean
       /\ "e1" \in Attempted(log')
       => Extracted' = Extracted]_vars

\* C28: unmount on the handle of an instance already unmounted, whose host
\* element has since been mounted again, leaves the later instance in its
\* registry, its HabitatMeta on the host element and its rendered tree in
\* the render target
C28_StaleUnmountHarmless ==
    [][op'.name = "unmount"
         => LET a == op'.id
                e == inst[a].el
                b == meta[e].unmount
            IN  inst[a].gone /\ b > a /\ IsLive(b)
                   => /\ b \in Range(instances'[inst[b].fac])
                      /\ meta'[e] = meta[e]
                      /\ dom'[e] = dom[e]]_vars

\* C29: update on an instance that has been unmounted renders nothing and
\* leaves the instance as it was, and a render target of a host element
\* with no HabitatMeta and no registry entry holds no rendered component
C29_UpdateAfterUnmount ==
    [][/\ op'.name = "update" /\ inst[op'.id].gone
             => /\ dom' = dom
                /\ inst'[op'.id] = inst[op'.id]
                /\ LogCount(log', "render") = 0
       /\ \A e \in Elements :
             /\ meta'[e] = NoMeta
             /\ \A f \in Factories : CountIn(instances', inst', f, e) = 0
             => \A r \in DOMAIN dom'[e] : dom'[e][r] = EmptyTree]_vars

\* C30: for a live instance mounted with lazy, an update made while the
\* observer is still observing renders nothing, the activation renders the
\* props merged so far, and whatever tree the render target holds carries
\* those props
C30_LazyRendersCurrentProps ==
    [][/\ op'.name = "update" /\ IsLive(op'.id) /\ inst[op'.id].obs = "observing"
             => /\ LogCount(log', "render") = 0
                /\ dom' = dom
       /\ op'.name = "intersect" /\ op'.arg /\ IsLive(op'.id)
             => dom'[inst[op'.id].el][inst[op'.id].root].props = inst'[op'.id].cur
       /\ \A i \in InstIds :
             /\ i <= count'
             /\ inst'[i].obs # "none"
             /\ meta'[inst'[i].el].unmount = i
             /\ i \in Range(instances'[inst'[i].fac])
             /\ dom'[inst'[i].el][inst'[i].root] # EmptyTree
             => dom'[inst'[i].el][inst'[i].root].props = inst'[i].cur]_vars

\* C31: an instance is unmounted under the configuration it was mounted
\* with: its unmount invokes the on-unmount hook of that configuration, once,
\* or no hook if that configuration has none, whatever configuration a later
\* render call gave the factory
C31_ConfigPerRender ==
    [][op'.name = "unmount" /\ IsLive(op'.id) /\ ~inst[op'.id].gone
         => LET i == op'.id
                c == inst[i].cfg
                hooks == SelectSeq(log', LAMBDA ev : ev.ev = "onUnmount")
            IN  hooks = IF HabitatOptions(c).onUnmount
                        THEN <<Ev("onUnmount", inst[i].el, i, c)>>
                        ELSE <<>>]_vars

\* C32: an emit call ends after at most as many callback invocations as the
\* topic had subscribers when it was called, also when a callback
\* unsubscribes and subscribes itself again, or subscribes another callback
\* to the topic, during the pass (no callback of the model emits)
C32_EmitTerminates ==
    [][op'.name = "emit"
         => /\ \A j \in DOMAIN log' : log'[j].ev # "unfinished"
            /\ Cardinality({j \in DOMAIN log' : log'[j].ev = "call"})
                  <= Cardinality(SubscribedIn(events, op'.arg.topic))]_vars

\* an emit on a topic whose one subscriber subscribes itself again did not
\* come to an end
C32_Unfinished ==
    /\ op.name = "emit"
    /\ events = [u \in {"x"} |-> <<"resub">>]
    /\ BusEv("unfinished", "resub", "x", op.arg.args) \in Range(log)

\* C33: the closure on(topic, cb) returned removes the subscription it was
\* returned for and no other: called while that subscription is there it
\* unsubscribes cb from the topic, called after that subscription was
\* removed it changes nothing, so a subscription of the same callback made
\* since stays
C33_RemovableOnce ==
    [][op'.name = "unsubscribe"
         => LET t == op'.arg.topic
                cb == op'.arg.cb
            IN  /\ op'.arg.args = JsFalse
                      => cb \in SubscribedIn(events, t) /\ cb \notin SubscribedIn(events', t)
                /\ op'.arg.args = JsTrue
                      => events' = events]_vars

\* C34: the lite render mounts the component on every host element with the
\* props the full collectProps yields for that element and those defaults
\* (attribute over data block over defaults, the same coercion, every block
\* merged), also when clean is requested
C34_LiteRefinesFull ==
    [][op'.name = "liteRender"
         => \A k \in DOMAIN log' :
               log'[k].ev = "liteRender"
                  => log'[k].props = collectProps(log'[k].el, op'.arg.defaultProps)]_vars

====
